---- MODULE Spec2Model ----
(***************************************************************************)
(* ResumeHunter: the indexing/scoring service (api6.py) and the Streamlit  *)
(* client (app6.py).                                                        *)
(*                                                                          *)
(* Strings whose characters matter (identifiers, report text) are modelled  *)
(* as sequences of one-character strings, so that formatting and parsing    *)
(* are computed, not assumed.                                               *)
(***************************************************************************)
EXTENDS Integers, Sequences, FiniteSets, TLC

VARIABLES
    \* ---- the local file system and one call of prepare_jsons_for_rag
    disk,          \* path name -> [status, data]: what open()/json.load() find
    json_paths,    \* the argument of prepare_jsons_for_rag
    prepared,      \* the outcome of the call: [status, items, error]
    \* ---- the indexing/scoring service
    store,         \* the vector index: identifier -> [values, metadata]
    req,           \* the /push_docs/ requests (0: the startup task's own)
    startup_pc,    \* where the startup thread is
    startup_runs,  \* how often the body of the startup task was entered
    startup_log,   \* what the startup task printed
    clear_resp,    \* the responses /clear_pinecone/ requests have got so far (a set)
    ats_resp,      \* the response of the latest /ats_check/ request
    \* ---- the client: one submission of the form
    submitted,     \* the submit button was pressed
    jd_text,       \* the job description typed into the form
    uploaded_files,\* the uploaded resumes: [name, pdf]
    client_pc,     \* where the script run is
    idx,           \* the resume the loop is at (1-based)
    backend,       \* what the backend answered for each resume processed so far
    collected,     \* the Scoring Results in the order they were appended
    results,       \* the list results (sorted in place before display)
    best_resume,   \* what is presented as the best match
    \* ---- one score extraction
    ats_result,    \* the report text
    score,         \* the extracted score
    extract_pc

flattenVars == <<json_paths, prepared>>

serviceVars == <<store, req, startup_pc, startup_runs, startup_log, clear_resp,
                 ats_resp>>

clientVars == <<submitted, jd_text, uploaded_files, client_pc, idx, backend,
                collected, results, best_resume, ats_result, score, extract_pc>>

vars == <<disk, json_paths, prepared, store, req, startup_pc, startup_runs,
          startup_log, clear_resp, ats_resp, submitted, jd_text, uploaded_files,
          client_pc, idx, backend, collected, results, best_resume, ats_result,
          score, extract_pc>>

\* ------------------------------------------------------------------ bounds
MaxFiles == 2      \* files in one flattening run
MaxJobs == 2       \* job records in one flattening run (over all its files)
MaxRecs == 6       \* recommendations of one job
MaxDocs == 6       \* documents of one direct upsert_documents call
MaxBatchSize == 4  \* batch_size of one direct upsert_documents call
MaxPush == 1       \* /push_docs/ requests of clients (the startup task posts one more)
MaxBatches == 2    \* batches of a client's /push_docs/ request
MaxResumes == 3    \* resumes uploaded in one submission

\* the client is not running
ClientIdle ==
    /\ submitted = FALSE
    /\ jd_text = <<>>
    /\ uploaded_files = <<>>
    /\ client_pc = "idle"
    /\ idx = 1
    /\ backend = <<>>
    /\ collected = <<>>
    /\ results = <<>>
    /\ best_resume = [none |-> TRUE]
    /\ ats_result = <<>>
    /\ score = 0
    /\ extract_pc = "idle"

\* ------------------------------------------------------------- characters
Digits == <<"0", "1", "2", "3", "4", "5", "6", "7", "8", "9">>

DigitChars == {Digits[i] : i \in 1..10}

\* str(n) of a non-negative int, as f"{n}" formats it
RECURSIVE ToDecimal(_)
ToDecimal(n) ==
    IF n < 10 THEN <<Digits[n + 1]>>
    ELSE ToDecimal(n \div 10) \o <<Digits[(n % 10) + 1]>>

Min(a, b) == IF a < b THEN a ELSE b

\* ---------------------------------------------------- flattening pipeline
\* os.path.basename of a path <<directory, name>>
basename(path) == path[2]

\* json.dumps of a recommendation; recommendations are JSON integers here
json_dumps(rec) == ToDecimal(rec)

\* mutant: a default slug that does not carry the counter
DefaultSlugNoCounter(global_index) == <<"j", "o", "b">>

\* f"job-{global_index}", the default of job.get("slug", ...)
DefaultSlug(global_index) == <<"j", "o", "b", "-">> \o ToDecimal(global_index)

\* job.get("slug", f"job-{global_index}")
GetSlug(job, global_index) ==
    IF job.has_slug THEN job.slug ELSE DefaultSlug(global_index)

\* job.get("recommendations", [])
GetRecommendations(job) ==
    IF job.has_recs THEN job.recommendations ELSE <<>>

\* f"{slug}-{global_index}"
UniqueId(slug, global_index) == slug \o <<"-">> \o ToDecimal(global_index)

\* the inner loop: one item per recommendation, global_index += 1 after each
RECURSIVE RecLoop(_, _, _, _, _)
RecLoop(recs, k, slug, filename, st) ==
    IF k > Len(recs) THEN st
    ELSE RecLoop(recs, k + 1, slug, filename,
                 [items |-> Append(st.items,
                                   [id |-> UniqueId(slug, st.global_index),
                                    line |-> json_dumps(recs[k]),
                                    filename |-> filename,
                                    page_number |-> <<"1">>]),
                  global_index |-> st.global_index + 1])

\* the loop over the jobs of one file: the slug is read once per job
RECURSIVE JobLoop(_, _, _, _)
JobLoop(job_data, j, filename, st) ==
    IF j > Len(job_data) THEN st
    ELSE JobLoop(job_data, j + 1, filename,
                 RecLoop(GetRecommendations(job_data[j]), 1,
                         GetSlug(job_data[j], st.global_index), filename, st))

\* mutant: the counter starts at 0 again in every file
RECURSIVE FileLoopResets(_, _, _, _)
FileLoopResets(fs, paths, f, st) ==
    IF f > Len(paths) THEN [status |-> "returned", items |-> st.items,
                            error |-> "none"]
    ELSE IF fs[paths[f]].status = "missing"
         THEN [status |-> "raised", items |-> <<>>, error |-> "FileNotFoundError"]
    ELSE IF fs[paths[f]].status = "malformed"
         THEN [status |-> "raised", items |-> <<>>, error |-> "JSONDecodeError"]
    ELSE FileLoopResets(fs, paths, f + 1,
                        JobLoop(fs[paths[f]].data, 1, basename(paths[f]),
                                [items |-> st.items, global_index |-> 0]))

\* the loop over the files; open() or json.load() of a file may raise, and
\* nothing catches it here
RECURSIVE FileLoop(_, _, _, _)
FileLoop(fs, paths, f, st) ==
    IF f > Len(paths) THEN [status |-> "returned", items |-> st.items,
                            error |-> "none"]
    ELSE IF fs[paths[f]].status = "missing"
         THEN [status |-> "raised", items |-> <<>>, error |-> "FileNotFoundError"]
    ELSE IF fs[paths[f]].status = "malformed"
         THEN [status |-> "raised", items |-> <<>>, error |-> "JSONDecodeError"]
    ELSE FileLoop(fs, paths, f + 1,
                  JobLoop(fs[paths[f]].data, 1, basename(paths[f]), st))

prepare_jsons_for_rag(fs, paths) ==
    FileLoop(fs, paths, 1, [items |-> <<>>, global_index |-> 0])

\* ---------------------------------------------------------- batched upsert
DefaultBatchSize == 50

Procs == 0..MaxPush          \* 0 is the request the startup task posts
Clients == 1..MaxPush

NoResponse == [pending |-> TRUE]

IdleReq ==
    [status |-> "idle", documents |-> <<>>, batch_size |-> DefaultBatchSize,
     i |-> 0, calls |-> <<>>, response |-> NoResponse, cleared_since |-> FALSE]

\* embedding_model.encode(text).tolist(): a value that depends on the text
\* only (here a one-dimensional vector)
Encode(text) == <<Len(text)>>

\* the first loop of upsert_documents: one vector record per document
Vectors(documents) ==
    [k \in 1..Len(documents) |->
        [id |-> documents[k].id,
         values |-> Encode(documents[k].line),
         metadata |-> [text |-> documents[k].line]]]

\* mutant: a slice that stops one record early
BatchSliceShort(vectors, i, batch_size) ==
    SubSeq(vectors, i + 1, Min(i + batch_size - 1, Len(vectors)))

\* vectors[i:i+batch_size]
BatchSlice(vectors, i, batch_size) ==
    SubSeq(vectors, i + 1, Min(i + batch_size, Len(vectors)))

\* range(0, len(vectors), batch_size): whether offset i is in the range
InRange(i, n) == i < n

\* mutant: a step that skips the record after each batch
NextOffsetSkips(i, batch_size) == i + batch_size + 1

\* range(0, len(vectors), batch_size): the offset after i
NextOffset(i, batch_size) == i + batch_size

\* index.upsert(vectors=batch): insert, or overwrite what has the identifier
IndexUpsert(index, batch) ==
    [id \in DOMAIN index \cup {batch[k].id : k \in 1..Len(batch)} |->
        IF \E k \in 1..Len(batch) : batch[k].id = id
        THEN LET k == CHOOSE x \in 1..Len(batch) :
                        /\ batch[x].id = id
                        /\ \A y \in (x + 1)..Len(batch) : batch[y].id # id
             IN [values |-> batch[k].values, metadata |-> batch[k].metadata]
        ELSE index[id]]

\* [doc["id"] for doc in documents]
IdsOf(documents) == [k \in 1..Len(documents) |-> documents[k].id]

ClearSuccess == [status |-> "success", message |-> "Pinecone index cleared."]

\* whether some /clear_pinecone/ request has returned success
ClearReturned == ClearSuccess \in clear_resp

\* a request arrives and the handler computes the embeddings of its documents
\* (vectors is Vectors(documents) from then on)
BeginRequest(p, documents, batch_size) ==
    req' = [req EXCEPT ![p] =
              [IdleReq EXCEPT !.status = "running",
                              !.documents = documents,
                              !.batch_size = batch_size]]

\* the embedding model raises in the first loop: no store call was made, and
\* push_docs turns the exception into an error body
EncodeFails(p, documents) ==
    req' = [req EXCEPT ![p] =
              [IdleReq EXCEPT !.status = "error",
                              !.documents = documents,
                              !.response = [error |-> "EncodeError"]]]

\* one iteration of the batch loop whose index.upsert call returns
UpsertBatch(p) ==
    /\ req[p].status = "running"
    /\ InRange(req[p].i, Len(Vectors(req[p].documents)))
    /\ LET batch == BatchSlice(Vectors(req[p].documents), req[p].i, req[p].batch_size)
       IN /\ store' = IndexUpsert(store, batch)
          /\ req' = [req EXCEPT ![p].calls = Append(@, [ids |-> IdsOf(batch), ok |-> TRUE]),
                                ![p].i = NextOffset(@, req[p].batch_size)]
    /\ UNCHANGED <<disk, flattenVars, clientVars, startup_pc, startup_runs, startup_log,
                   clear_resp, ats_resp>>

\* mutant: the failure of a batch is swallowed and the loop goes on
UpsertFailsContinues(p) ==
    /\ req[p].status = "running"
    /\ InRange(req[p].i, Len(Vectors(req[p].documents)))
    /\ LET batch == BatchSlice(Vectors(req[p].documents), req[p].i, req[p].batch_size)
       IN req' = [req EXCEPT ![p].calls = Append(@, [ids |-> IdsOf(batch), ok |-> FALSE]),
                             ![p].i = NextOffset(@, req[p].batch_size)]
    /\ UNCHANGED <<disk, flattenVars, clientVars, store, startup_pc, startup_runs,
                   startup_log, clear_resp, ats_resp>>

\* one iteration of the batch loop whose index.upsert call raises: the
\* exception leaves upsert_documents and push_docs answers with an error body
UpsertFails(p) ==
    /\ req[p].status = "running"
    /\ InRange(req[p].i, Len(Vectors(req[p].documents)))
    /\ LET batch == BatchSlice(Vectors(req[p].documents), req[p].i, req[p].batch_size)
       IN req' = [req EXCEPT ![p].calls = Append(@, [ids |-> IdsOf(batch), ok |-> FALSE]),
                             ![p].status = "error",
                             ![p].response = [error |-> "StoreError"]]
    /\ UNCHANGED <<disk, flattenVars, clientVars, store, startup_pc, startup_runs, startup_log,
                   clear_resp, ats_resp>>

\* the batch loop is over: upsert_documents returns the identifiers and
\* push_docs answers with them
UpsertReturns(p) ==
    /\ req[p].status = "running"
    /\ ~InRange(req[p].i, Len(Vectors(req[p].documents)))
    /\ req' = [req EXCEPT ![p].status = "success",
                          ![p].response = [status |-> "success",
                                           inserted_ids |-> IdsOf(req[p].documents)]]
    /\ UNCHANGED <<disk, flattenVars, clientVars, store, startup_pc, startup_runs, startup_log,
                   clear_resp, ats_resp>>

\* --------------------------------------------------------------- endpoints
\* the documents of a client's request: n items
ClientDocs(n) ==
    [k \in 1..n |-> [id |-> <<"d", "-">> \o ToDecimal(k),
                     line |-> json_dumps(k),
                     filename |-> <<"u">>,
                     page_number |-> <<"1">>]]

\* an empty request, or one of MaxBatches batches whose last batch is partial
PushLens == {0, (MaxBatches - 1) * DefaultBatchSize + 1}

\* requests are numbered in their order of arrival
Arrived(p) == \A q \in Clients : q < p => req[q].status # "idle"

\* POST /push_docs/ of a client
PushDocs(p) ==
    /\ req[p].status = "idle"
    /\ Arrived(p)
    /\ \E n \in PushLens : BeginRequest(p, ClientDocs(n), DefaultBatchSize)
    /\ UNCHANGED <<disk, flattenVars, clientVars, store, startup_pc, startup_runs, startup_log,
                   clear_resp, ats_resp>>

\* POST /push_docs/ of a client, the embedding model failing
PushDocsEncodeFails(p) ==
    /\ req[p].status = "idle"
    /\ Arrived(p)
    /\ \E n \in PushLens \ {0} : EncodeFails(p, ClientDocs(n))
    /\ UNCHANGED <<disk, flattenVars, clientVars, store, startup_pc, startup_runs, startup_log,
                   clear_resp, ats_resp>>

\* POST /clear_pinecone/: index.delete(delete_all=True) returns
ClearPinecone ==
    /\ store' = <<>>
    /\ clear_resp' = clear_resp \cup {ClearSuccess}
    /\ req' = [p \in Procs |->
                 IF req[p].status = "idle" THEN req[p]
                 ELSE [req[p] EXCEPT !.cleared_since = TRUE]]
    /\ UNCHANGED <<disk, flattenVars, clientVars, startup_pc, startup_runs, startup_log, ats_resp>>

\* POST /clear_pinecone/: index.delete raises
ClearPineconeFails ==
    /\ clear_resp' = clear_resp \cup {[error |-> "StoreError"]}
    /\ UNCHANGED <<disk, flattenVars, clientVars, store, req, startup_pc, startup_runs,
                   startup_log, ats_resp>>

\* POST /ats_check/: generate_content returns
AtsCheck ==
    /\ ats_resp' = [output |-> "generated"]
    /\ UNCHANGED <<disk, flattenVars, clientVars, store, req, startup_pc, startup_runs,
                   startup_log, clear_resp>>

\* POST /ats_check/: generate_content raises
AtsCheckFails ==
    /\ ats_resp' = [error |-> "GenerateError"]
    /\ UNCHANGED <<disk, flattenVars, clientVars, store, req, startup_pc, startup_runs,
                   startup_log, clear_resp>>

\* ------------------------------------------------------------ startup task
JobDescriptions == <<".", "job_descriptions.json">>
JobDescriptions1 == <<".", "job_descriptions_1.json">>

\* json_files of auto_push_job_data
JsonFiles == <<JobDescriptions, JobDescriptions1>>

\* os.path.exists(file_path)
Exists(fs, path) == fs[path].status # "missing"

\* job_descriptions.json does not exist: a warning is printed
StartupNoFile ==
    /\ startup_pc = "start"
    /\ ~Exists(disk, JobDescriptions)
    /\ startup_pc' = "done"
    /\ startup_runs' = startup_runs + 1
    /\ startup_log' = Append(startup_log, [warning |-> "job_descriptions.json not found."])
    /\ UNCHANGED <<disk, flattenVars, clientVars, store, req, clear_resp, ats_resp>>

\* mutant: the exception of prepare_jsons_for_rag leaves the task uncaught
StartupPrepareEscapes ==
    /\ startup_pc = "start"
    /\ Exists(disk, JobDescriptions)
    /\ prepare_jsons_for_rag(disk, JsonFiles).status = "raised"
    /\ startup_pc' = "raised"
    /\ startup_runs' = startup_runs + 1
    /\ UNCHANGED <<disk, flattenVars, clientVars, store, req, startup_log, clear_resp,
                   ats_resp>>

\* prepare_jsons_for_rag raises: the except clause prints the error
StartupPrepareFails ==
    /\ startup_pc = "start"
    /\ Exists(disk, JobDescriptions)
    /\ prepare_jsons_for_rag(disk, JsonFiles).status = "raised"
    /\ startup_pc' = "done"
    /\ startup_runs' = startup_runs + 1
    /\ startup_log' = Append(startup_log,
                             [error |-> prepare_jsons_for_rag(disk, JsonFiles).error])
    /\ UNCHANGED <<disk, flattenVars, clientVars, store, req, clear_resp, ats_resp>>

\* the flattened items are posted to /push_docs/ through a TestClient
StartupPosts ==
    /\ startup_pc = "start"
    /\ Exists(disk, JobDescriptions)
    /\ prepare_jsons_for_rag(disk, JsonFiles).status = "returned"
    /\ BeginRequest(0, prepare_jsons_for_rag(disk, JsonFiles).items, DefaultBatchSize)
    /\ startup_pc' = "posting"
    /\ startup_runs' = startup_runs + 1
    /\ UNCHANGED <<disk, flattenVars, clientVars, store, startup_log, clear_resp, ats_resp>>

\* the same, the embedding model failing inside the request
StartupPostsEncodeFails ==
    /\ startup_pc = "start"
    /\ Exists(disk, JobDescriptions)
    /\ prepare_jsons_for_rag(disk, JsonFiles).status = "returned"
    /\ prepare_jsons_for_rag(disk, JsonFiles).items # <<>>
    /\ EncodeFails(0, prepare_jsons_for_rag(disk, JsonFiles).items)
    /\ startup_pc' = "posting"
    /\ startup_runs' = startup_runs + 1
    /\ UNCHANGED <<disk, flattenVars, clientVars, store, startup_log, clear_resp, ats_resp>>

\* the response of the posted request is printed, whatever it carries
StartupPrints ==
    /\ startup_pc = "posting"
    /\ req[0].status \in {"success", "error"}
    /\ startup_pc' = "done"
    /\ startup_log' = Append(startup_log, [indexed |-> req[0].response])
    /\ UNCHANGED <<disk, flattenVars, clientVars, store, req, startup_runs, clear_resp, ats_resp>>

\* every step of the startup thread
StartupStep ==
    \/ StartupNoFile
    \/ StartupPrepareFails
    \/ StartupPosts
    \/ StartupPostsEncodeFails
    \/ UpsertBatch(0)
    \/ UpsertFails(0)
    \/ UpsertReturns(0)
    \/ StartupPrints

\* ------------------------------------------------- the service as a whole
OneJob(hs, n) ==
    [has_slug |-> hs, slug |-> IF hs THEN <<"a">> ELSE <<>>,
     has_recs |-> TRUE, recommendations |-> [i \in 1..n |-> i]]

\* what the two fixed files may hold when the process starts
StartupFiles ==
    {[status |-> "missing", data |-> <<>>],
     [status |-> "malformed", data |-> <<>>],
     [status |-> "ok", data |-> <<OneJob(FALSE, 2)>>]}

ServiceIdle ==
    /\ store = <<>>
    /\ req = [p \in Procs |-> IdleReq]
    /\ startup_pc = "done"
    /\ startup_runs = 0
    /\ startup_log = <<>>
    /\ clear_resp = {}
    /\ ats_resp = NoResponse

Init ==
    /\ \E f0, f1 \in StartupFiles :
         /\ f0.status # "ok" => f1 = f0
         /\ disk = [p \in {JobDescriptions, JobDescriptions1} |->
                       IF p = JobDescriptions THEN f0 ELSE f1]
    /\ json_paths = <<>>
    /\ prepared = [status |-> "none", items |-> <<>>, error |-> "none"]
    /\ store = <<>>
    /\ req = [p \in Procs |-> IdleReq]
    /\ startup_pc = "start"
    /\ startup_runs = 0
    /\ startup_log = <<>>
    /\ clear_resp = {}
    /\ ats_resp = NoResponse
    /\ ClientIdle

Next ==
    \/ StartupNoFile
    \/ StartupPrepareFails
    \/ StartupPosts
    \/ StartupPostsEncodeFails
    \/ StartupPrints
    \/ \E p \in Procs : UpsertBatch(p)
    \/ \E p \in Procs : UpsertFails(p)
    \/ \E p \in Procs : UpsertReturns(p)
    \/ \E p \in Clients : PushDocs(p)
    \/ \E p \in Clients : PushDocsEncodeFails(p)
    \/ ClearPinecone
    \/ ClearPineconeFails
    \/ AtsCheck
    \/ AtsCheckFails

Spec == Init /\ [][Next]_vars

\* ---------------------------- upsert_documents called with any batch_size
UpsertInit ==
    /\ disk = <<>>
    /\ json_paths = <<>>
    /\ prepared = [status |-> "none", items |-> <<>>, error |-> "none"]
    /\ store = <<>>
    /\ \E n \in 0..MaxDocs, bs \in 1..MaxBatchSize :
         req = [p \in Procs |->
                  IF p = 1
                  THEN [IdleReq EXCEPT !.status = "running",
                                       !.documents = ClientDocs(n),
                                       !.batch_size = bs]
                  ELSE IdleReq]
    /\ startup_pc = "done"
    /\ startup_runs = 0
    /\ startup_log = <<>>
    /\ clear_resp = {}
    /\ ats_resp = NoResponse
    /\ ClientIdle

UpsertNext == UpsertBatch(1) \/ UpsertFails(1) \/ UpsertReturns(1)

SpecUpsert == UpsertInit /\ [][UpsertNext]_vars

\* --------------------------------------------- batched upsert: the claims
\* ceil(n / batch_size)
CeilDiv(n, batch_size) == (n + batch_size - 1) \div batch_size

\* the identifiers the store holds
StoredIds == DOMAIN store

\* the identifiers of the k-th contiguous slice of size batch_size of r's
\* documents, the last slice ending with the last document
ExpectedBatch(r, k) ==
    LET lo == (k - 1) * r.batch_size
        hi == IF k * r.batch_size < Len(r.documents) THEN k * r.batch_size
              ELSE Len(r.documents)
    IN [j \in 1..(hi - lo) |-> r.documents[lo + j].id]

\* C2: a call of upsert_documents on n >= 0 documents with batch_size >= 1 in
\* which no store call fails makes exactly ceil(n / batch_size) index.upsert
\* calls, one after the other; the batches are the contiguous slices in the
\* original order, each but possibly the last of exactly batch_size records,
\* so every document is in exactly one batch; the returned list is the
\* identifiers in the original order.
C2_BatchedUpsert ==
    req[1].status = "success" =>
        /\ Len(req[1].calls) = CeilDiv(Len(req[1].documents), req[1].batch_size)
        /\ \A k \in 1..Len(req[1].calls) :
             /\ req[1].calls[k].ok
             /\ req[1].calls[k].ids = ExpectedBatch(req[1], k)
             /\ k < Len(req[1].calls) => Len(req[1].calls[k].ids) = req[1].batch_size
             /\ Len(req[1].calls[k].ids) \in 1..req[1].batch_size
        /\ \A d \in 1..Len(req[1].documents) :
             Cardinality({<<k, j>> \in (1..Len(req[1].calls)) \X (1..req[1].batch_size) :
                            /\ j <= Len(req[1].calls[k].ids)
                            /\ (k - 1) * req[1].batch_size + j = d
                            /\ req[1].calls[k].ids[j] = req[1].documents[d].id}) = 1
        /\ req[1].response.inserted_ids = [d \in 1..Len(req[1].documents) |->
                                              req[1].documents[d].id]
        /\ \A d \in 1..Len(req[1].documents) :
             /\ req[1].documents[d].id \in StoredIds
             /\ store[req[1].documents[d].id].metadata.text = req[1].documents[d].line

\* C2 witness: five documents in batches of two: three calls, the last partial
C2_Witness ==
    /\ req[1].status = "success"
    /\ Len(req[1].documents) = 5
    /\ req[1].batch_size = 2
    /\ Len(req[1].calls) = 3
    /\ Len(req[1].calls[3].ids) = 1

\* C3: a failed store call is the last store call of its request (no batch is
\* sent after it); what the batches before it wrote stays in the store unless
\* a clear removes it; the request then ends with a body of an "error" string
\* alone; the handler ends in a response, never in an exception; and "success"
\* is answered only when every batch call returned.
C3_FailureAborts ==
    \A p \in Procs :
        /\ req[p].status \in {"idle", "running", "success", "error"}
        /\ \A k \in 1..(Len(req[p].calls) - 1) : req[p].calls[k].ok
        /\ (req[p].calls # <<>> /\ ~req[p].calls[Len(req[p].calls)].ok) =>
             /\ req[p].status = "error"
             /\ (~req[p].cleared_since =>
                   \A k \in 1..(Len(req[p].calls) - 1) :
                      \A j \in 1..Len(req[p].calls[k].ids) :
                         req[p].calls[k].ids[j] \in StoredIds)
        /\ req[p].status = "error" =>
             /\ DOMAIN req[p].response = {"error"}
             /\ req[p].response.error \in {"StoreError", "EncodeError"}
        /\ req[p].status = "success" =>
             /\ DOMAIN req[p].response = {"status", "inserted_ids"}
             /\ req[p].response.status = "success"
             /\ Len(req[p].calls) = CeilDiv(Len(req[p].documents), req[p].batch_size)
             /\ \A k \in 1..Len(req[p].calls) : req[p].calls[k].ok
        /\ req[p].status \in {"idle", "running"} => req[p].response = NoResponse

\* C3 witness: the second batch of a request failed; the first batch is in the
\* store
C3_Witness ==
    \E p \in Clients :
        /\ req[p].status = "error"
        /\ Len(req[p].calls) = 2
        /\ req[p].calls[1].ok
        /\ ~req[p].calls[2].ok
        /\ Len(req[p].calls[1].ids) = DefaultBatchSize
        /\ \A j \in 1..Len(req[p].calls[1].ids) : req[p].calls[1].ids[j] \in StoredIds

\* C8: a /push_docs/ request that arrived after a /clear_pinecone/ request had
\* returned success, and has itself returned success with no clear since it
\* arrived, has every one of its identifiers in the store, whatever the
\* startup thread and the other push requests did in between.
C8_PushAfterClear ==
    \A p \in Procs :
        (req[p].status = "success" /\ ClearReturned /\ ~req[p].cleared_since) =>
            \A d \in 1..Len(req[p].documents) : req[p].documents[d].id \in StoredIds

\* C8 witness: a client's two-batch push and the startup task's push have both
\* succeeded after the clear
C8_Witness ==
    /\ ClearReturned
    /\ \E p \in Clients :
         /\ req[p].status = "success"
         /\ ~req[p].cleared_since
         /\ Len(req[p].documents) > DefaultBatchSize
    /\ req[0].status = "success"
    /\ ~req[0].cleared_since
    /\ req[0].documents # <<>>

\* -------------------------------------------------- startup task: claims
PrepareErrors == {"FileNotFoundError", "JSONDecodeError"}

\* what is left for the startup thread to do
StartupMeasure ==
    LET n == Len(prepare_jsons_for_rag(disk, JsonFiles).items)
        left == IF req[0].status = "running"
                THEN n - Min(req[0].i, n) + 1
                ELSE 0
    IN IF startup_pc = "start" THEN n + 3
       ELSE IF startup_pc = "posting" THEN left + 1
       ELSE 0

C10_Safe ==
    /\ startup_runs <= 1
    /\ startup_pc \in {"start", "posting", "done"}
    /\ startup_pc # "done" => ENABLED StartupStep
    /\ Len(startup_log) <= 1
    /\ startup_pc = "done" => Len(startup_log) = 1
    /\ ~Exists(disk, JobDescriptions) =>
         /\ req[0] = IdleReq
         /\ startup_pc = "done" => DOMAIN startup_log[1] = {"warning"}
    /\ (Exists(disk, JobDescriptions)
          /\ \E f \in 1..Len(JsonFiles) : disk[JsonFiles[f]].status # "ok") =>
         /\ req[0] = IdleReq
         /\ startup_pc = "done" =>
              /\ DOMAIN startup_log[1] = {"error"}
              /\ startup_log[1].error \in PrepareErrors
    /\ (startup_pc = "done" /\ req[0].status = "error") =>
         startup_log[1] = [indexed |-> req[0].response]
    /\ \A p \in Clients :
         "error" \in DOMAIN req[p].response =>
            /\ req[p].response.error \notin PrepareErrors
            /\ (req[p].response.error = "StoreError" =>
                  /\ req[p].calls # <<>>
                  /\ ~req[p].calls[Len(req[p].calls)].ok)
            /\ (req[p].response.error = "EncodeError" => req[p].calls = <<>>)
    /\ \A r \in clear_resp : "error" \in DOMAIN r => r.error \notin PrepareErrors
    /\ "error" \in DOMAIN ats_resp => ats_resp.error \notin PrepareErrors

\* C10: the body of the startup task is entered at most once; the thread
\* always has a step to take until it is done, every step brings it nearer to
\* the end, and under fair scheduling it gets there; a failure in it (a file
\* missing or malformed, a store failure during the push) ends in a line of
\* its log and nowhere else: the thread does not end in an exception, no
\* response of a client's /push_docs/, /ats_check/ or /clear_pinecone/ request
\* carries it, and a failure while the files are read or flattened leaves the
\* task's request unposted (zero upsert calls).
C10_StartupTask ==
    /\ []C10_Safe
    /\ [][StartupStep => StartupMeasure' < StartupMeasure]_vars
    /\ <>(startup_pc = "done")

\* C10 witness: job_descriptions_1.json is missing while job_descriptions.json
\* exists; the task has logged the error and made no store call, while a
\* client's push has succeeded
C10_Witness ==
    /\ disk[JobDescriptions].status = "ok"
    /\ disk[JobDescriptions1].status = "missing"
    /\ startup_pc = "done"
    /\ startup_log = <<[error |-> "FileNotFoundError"]>>
    /\ req[0].calls = <<>>
    /\ \E p \in Clients : req[p].status = "success" /\ req[p].calls # <<>>

\* the service with the startup thread scheduled fairly (every store call and
\* every call of the embedding model returns or raises)
SpecLive == Init /\ [][Next]_vars /\ WF_vars(StartupStep)

\* ------------------------------------------------ client: score extraction
Marker == <<"A", "T", "S", " ", "M", "a", "t", "c", "h", " ", "S", "c", "o", "r", "e">>

\* str.splitlines, the line break being "\n": no empty last line
RECURSIVE SplitFrom(_, _, _)
SplitFrom(text, k, line) ==
    IF k > Len(text) THEN (IF line = <<>> THEN <<>> ELSE <<line>>)
    ELSE IF text[k] = "\n" THEN <<line>> \o SplitFrom(text, k + 1, <<>>)
    ELSE SplitFrom(text, k + 1, Append(line, text[k]))

splitlines(text) == SplitFrom(text, 1, <<>>)

\* needle in line
Contains(line, needle) ==
    \E k \in 1..(Len(line) - Len(needle) + 1) :
        SubSeq(line, k, k + Len(needle) - 1) = needle

\* [line for line in ats_result.splitlines() if "ATS Match Score" in line]
ScoreLines(text) ==
    SelectSeq(splitlines(text), LAMBDA line : Contains(line, Marker))

\* ''.join(filter(str.isdigit, score_line))
DigitsOf(line) == SelectSeq(line, LAMBDA c : c \in DigitChars)

\* int(s) of a non-empty string of decimal digits
RECURSIVE PyInt(_)
PyInt(ds) ==
    IF Len(ds) = 0 THEN 0
    ELSE 10 * PyInt(SubSeq(ds, 1, Len(ds) - 1))
         + (CHOOSE d \in 0..9 : Digits[d + 1] = ds[Len(ds)])

\* the body of the try: [...][0] raises IndexError on an empty list, int('')
\* raises ValueError
TryExtract(text) ==
    IF ScoreLines(text) = <<>> THEN [raised |-> "IndexError", value |-> 0]
    ELSE IF DigitsOf(ScoreLines(text)[1]) = <<>>
         THEN [raised |-> "ValueError", value |-> 0]
    ELSE [raised |-> "none", value |-> PyInt(DigitsOf(ScoreLines(text)[1]))]

\* mutant: the extraction without its try/except
ExtractScoreUncaught(text) == TryExtract(text)

\* score = 0; try: ... except: pass
ExtractScore(text) ==
    IF TryExtract(text).raised # "none" THEN [raised |-> "none", value |-> 0]
    ELSE TryExtract(text)

\* the upper end of the score range the prompt states
MaxScore == 100

\* a report in the output format the prompt of ats_check demands
PromptReport(n) ==
    <<"1", ".", " ", "A", "T", "S", " ", "M", "a", "t", "c", "h", " ", "S", "c", "o", "r", "e", ":", " ">> \o ToDecimal(n)
    \o <<"%", "\n", "2", ".", " ", "T", "a", "b", "l", "e", ":">>

\* a report whose score line carries no other digits
PlainReport(n) ==
    <<"R", "e", "p", "o", "r", "t", "\n", "A", "T", "S", " ", "M", "a", "t", "c", "h", " ", "S", "c", "o", "r", "e", ":", " ">> \o ToDecimal(n) \o <<"%">>

NoScoreReport == <<"T", "h", "e", " ", "r", "e", "s", "u", "m", "e", " ", "m", "a", "t", "c", "h", "e", "s", " ", "w", "e", "l", "l", ".", "\n", "S", "c", "o", "r", "e", ":", " ", "7", "0">>

NoDigitsReport == <<"A", "T", "S", " ", "M", "a", "t", "c", "h", " ", "S", "c", "o", "r", "e", ":", " ", "n", "/", "a", "\n">>

\* what the client's ats_check returns when the call fails
ErrorText == <<"E", "r", "r", "o", "r", " ", "o", "c", "c", "u", "r", "r", "e", "d", " ", "d", "u", "r", "i", "n", "g", " ", "A", "T", "S", " ", "c", "h", "e", "c", "k", ".">>

\* the default of res.json().get("output", ...)
NoOutputText == <<"N", "o", " ", "A", "T", "S", " ", "c", "h", "e", "c", "k", " ", "o", "u", "t", "p", "u", "t", ".">>

ExtractTexts ==
    {PromptReport(n) : n \in 0..MaxScore} \cup {PlainReport(n) : n \in 0..MaxScore}
    \cup {NoScoreReport, NoDigitsReport, ErrorText, NoOutputText, <<>>}

ExtractInit ==
    /\ disk = <<>>
    /\ json_paths = <<>>
    /\ prepared = [status |-> "none", items |-> <<>>, error |-> "none"]
    /\ ServiceIdle
    /\ submitted = FALSE
    /\ jd_text = <<>>
    /\ uploaded_files = <<>>
    /\ client_pc = "idle"
    /\ idx = 1
    /\ backend = <<>>
    /\ collected = <<>>
    /\ results = <<>>
    /\ best_resume = [none |-> TRUE]
    /\ ats_result \in ExtractTexts
    /\ score = 0
    /\ extract_pc = "start"

\* the extraction of the score from one report text
Extract ==
    /\ extract_pc = "start"
    /\ score' = ExtractScore(ats_result).value
    /\ extract_pc' = IF ExtractScore(ats_result).raised = "none" THEN "done" ELSE "raised"
    /\ UNCHANGED <<disk, flattenVars, serviceVars, submitted, jd_text, uploaded_files,
                   client_pc, idx, backend, collected, results, best_resume,
                   ats_result>>

ExtractNext == Extract

SpecExtract == ExtractInit /\ [][ExtractNext]_vars

\* ------------------------------------------------- client: the submission
\* what the backend may answer to POST /ats_check/
ClientTexts ==
    {PlainReport(40), PlainReport(90), PlainReport(65), PromptReport(87),
     NoScoreReport, NoDigitsReport}

BackendAnswers ==
    {[kind |-> "transport_error", status |-> 0, body |-> [none |-> TRUE]],
     [kind |-> "http", status |-> 500, body |-> [detail |-> "Internal Server Error"]],
     [kind |-> "http", status |-> 200, body |-> [error |-> "GenerateError"]]}
    \cup {[kind |-> "http", status |-> 200, body |-> [output |-> t]] : t \in ClientTexts}

\* the client's ats_check: requests.post, raise_for_status, .get("output", ...)
ats_check(answer) ==
    IF answer.kind = "transport_error" THEN ErrorText
    ELSE IF answer.status >= 400 THEN ErrorText
    ELSE IF "output" \in DOMAIN answer.body THEN answer.body.output
    ELSE NoOutputText

\* mutant: a descending sort that puts an element before its equals
RECURSIVE SortedInsertBeforeTies(_, _)
SortedInsertBeforeTies(sorted, r) ==
    IF sorted = <<>> THEN <<r>>
    ELSE IF sorted[1].score > r.score
         THEN <<sorted[1]>> \o SortedInsertBeforeTies(Tail(sorted), r)
    ELSE <<r>> \o sorted

\* results.sort(key=lambda x: x["score"], reverse=True): every element goes
\* behind the elements whose score is at least its own (list.sort is stable,
\* also with reverse=True)
RECURSIVE SortedInsert(_, _)
SortedInsert(sorted, r) ==
    IF sorted = <<>> THEN <<r>>
    ELSE IF sorted[1].score >= r.score
         THEN <<sorted[1]>> \o SortedInsert(Tail(sorted), r)
    ELSE <<r>> \o sorted

RECURSIVE SortDescending(_)
SortDescending(rs) ==
    IF rs = <<>> THEN <<>>
    ELSE SortedInsert(SortDescending(SubSeq(rs, 1, Len(rs) - 1)), rs[Len(rs)])

FileName(k) == <<"resume", k>>

ClientInit ==
    /\ disk = <<>>
    /\ json_paths = <<>>
    /\ prepared = [status |-> "none", items |-> <<>>, error |-> "none"]
    /\ ServiceIdle
    /\ submitted \in BOOLEAN
    /\ jd_text \in {<<>>, <<"j", "d">>}
    /\ \E n \in 0..MaxResumes :
         \E pdfs \in [1..n -> {"ok", "broken"}] :
            uploaded_files = [k \in 1..n |-> [name |-> FileName(k), pdf |-> pdfs[k]]]
    /\ client_pc = "form"
    /\ idx = 1
    /\ backend = <<>>
    /\ collected = <<>>
    /\ results = <<>>
    /\ best_resume = [none |-> TRUE]
    /\ ats_result = <<>>
    /\ score = 0
    /\ extract_pc = "idle"

\* if submitted and jd_text and uploaded_files
FormComplete == submitted /\ jd_text # <<>> /\ uploaded_files # <<>>

\* the condition of the form fails: nothing is processed
FormSkipped ==
    /\ client_pc = "form"
    /\ ~FormComplete
    /\ client_pc' = "skipped"
    /\ UNCHANGED <<disk, flattenVars, serviceVars, submitted, jd_text, uploaded_files,
                   idx, backend, collected, results, best_resume, ats_result, score,
                   extract_pc>>

\* results = [] and the loop over the uploaded files begins
FormSubmitted ==
    /\ client_pc = "form"
    /\ FormComplete
    /\ client_pc' = "loop"
    /\ results' = <<>>
    /\ UNCHANGED <<disk, flattenVars, serviceVars, submitted, jd_text, uploaded_files,
                   idx, backend, collected, best_resume, ats_result, score, extract_pc>>

\* one iteration: the PDF is read, the backend is asked, the score is
\* extracted, the result is appended
ProcessResume ==
    /\ client_pc = "loop"
    /\ idx <= Len(uploaded_files)
    /\ uploaded_files[idx].pdf = "ok"
    /\ \E answer \in BackendAnswers :
         LET text == ats_check(answer)
             extracted == ExtractScore(text)
             result == [filename |-> uploaded_files[idx].name,
                        score |-> extracted.value,
                        output |-> text]
         IN /\ backend' = Append(backend, answer)
            /\ ats_result' = text
            /\ score' = extracted.value
            /\ IF extracted.raised = "none"
               THEN /\ results' = Append(results, result)
                    /\ collected' = Append(collected, result)
                    /\ idx' = idx + 1
                    /\ client_pc' = "loop"
               ELSE /\ client_pc' = "exception"
                    /\ UNCHANGED <<results, collected, idx>>
    /\ UNCHANGED <<disk, flattenVars, serviceVars, submitted, jd_text, uploaded_files,
                   best_resume, extract_pc>>

\* one iteration in which extract_text_from_pdf raises: nothing catches the
\* exception, and the script run ends with it
PdfExtractionRaises ==
    /\ client_pc = "loop"
    /\ idx <= Len(uploaded_files)
    /\ uploaded_files[idx].pdf = "broken"
    /\ client_pc' = "exception"
    /\ UNCHANGED <<disk, flattenVars, serviceVars, submitted, jd_text, uploaded_files,
                   idx, backend, collected, results, best_resume, ats_result, score,
                   extract_pc>>

\* after the loop: the results are sorted and displayed, the first one as the
\* best match (an empty list gets a warning instead)
Display ==
    /\ client_pc = "loop"
    /\ idx > Len(uploaded_files)
    /\ IF results # <<>>
       THEN /\ results' = SortDescending(results)
            /\ best_resume' = SortDescending(results)[1]
            /\ client_pc' = "shown"
       ELSE /\ client_pc' = "warning"
            /\ UNCHANGED <<results, best_resume>>
    /\ UNCHANGED <<disk, flattenVars, serviceVars, submitted, jd_text, uploaded_files,
                   idx, backend, collected, ats_result, score, extract_pc>>

ClientNext ==
    \/ FormSkipped
    \/ FormSubmitted
    \/ ProcessResume
    \/ PdfExtractionRaises
    \/ Display

SpecClient == ClientInit /\ [][ClientNext]_vars

\* ----------------------------------------------------- client: the claims
\* the line the prompt's output format asks for
PromptLine(n) == <<"1", ".", " ", "A", "T", "S", " ", "M", "a", "t", "c", "h", " ", "S", "c", "o", "r", "e", ":", " ">> \o ToDecimal(n) \o <<"%">>

\* C4 as claimed: when the first line containing "ATS Match Score" is
\* "1. ATS Match Score: N%", N in 0..100, the extracted score is N.
C4_PromptFormatScore ==
    \A n \in 0..MaxScore :
        (/\ extract_pc = "done"
         /\ ScoreLines(ats_result) # <<>>
         /\ ScoreLines(ats_result)[1] = PromptLine(n)) => score = n

\* where a result stands in the order of submission
Submitted(r) == CHOOSE k \in 1..Len(collected) : collected[k] = r

\* C5: what is displayed is a permutation of the collected results in
\* non-increasing order of score; results of equal score keep their order of
\* submission; the best match is the first element and has the maximum score.
C5_Ranking ==
    client_pc = "shown" =>
        /\ Len(results) = Len(collected)
        /\ \A k \in 1..Len(collected) : \E j \in 1..Len(results) : results[j] = collected[k]
        /\ \A i, j \in 1..Len(results) : i # j => results[i] # results[j]
        /\ \A i, j \in 1..Len(results) :
             i < j =>
                /\ results[i].score >= results[j].score
                /\ (results[i].score = results[j].score
                      => Submitted(results[i]) < Submitted(results[j]))
        /\ best_resume = results[1]
        /\ \A k \in 1..Len(collected) : best_resume.score >= collected[k].score

\* C5 witness: scores 40, 90, 65 are displayed as 90, 65, 40, the 90 as best
C5_Witness ==
    /\ client_pc = "shown"
    /\ Len(collected) = 3
    /\ collected[1].score = 40 /\ collected[2].score = 90 /\ collected[3].score = 65
    /\ results[1].score = 90 /\ results[2].score = 65 /\ results[3].score = 40
    /\ best_resume = collected[2]

\* the backend call of a resume failed: no connection, a 4xx or 5xx status
\* (raise_for_status), or a body without "output"
BackendFailed(answer) ==
    \/ answer.kind = "transport_error"
    \/ answer.status >= 400
    \/ "output" \notin DOMAIN answer.body

\* C6: the score extraction never raises (the script run ends in an exception
\* only at a PDF that cannot be read); a report with no line containing
\* "ATS Match Score", or whose first such line has no digit, gets score 0; a
\* resume whose backend call failed still gets exactly one Scoring Result,
\* with score 0, and the loop goes on to the next resume.
C6_FailuresScoreZero ==
    /\ client_pc = "exception" =>
         /\ idx <= Len(uploaded_files)
         /\ uploaded_files[idx].pdf = "broken"
    /\ Len(collected) = Len(backend)
    /\ client_pc \in {"loop", "exception"} =>
         /\ Len(collected) = idx - 1
         /\ results = collected
    /\ (client_pc = "loop" /\ idx <= Len(uploaded_files)) =>
         ENABLED (ProcessResume \/ PdfExtractionRaises)
    /\ \A k \in 1..Len(collected) :
         /\ collected[k].filename = uploaded_files[k].name
         /\ BackendFailed(backend[k]) =>
              /\ collected[k].score = 0
              /\ collected[k].output \in {ErrorText, NoOutputText}
         /\ ~Contains(collected[k].output, Marker) => collected[k].score = 0
         /\ (/\ ScoreLines(collected[k].output) # <<>>
             /\ \A c \in 1..Len(ScoreLines(collected[k].output)[1]) :
                   ScoreLines(collected[k].output)[1][c] \notin DigitChars)
              => collected[k].score = 0

\* C6 witness: the first call found no connection, the second got an error
\* body, the third a line without digits; all three resumes have a result
C6_Witness ==
    /\ Len(collected) = 3
    /\ backend[1].kind = "transport_error"
    /\ backend[2].kind = "http" /\ "error" \in DOMAIN backend[2].body
    /\ collected[3].output = NoDigitsReport
    /\ \A k \in 1..3 : collected[k].score = 0

\* C7 as claimed: a PDF that cannot be read does not end the processing: when
\* the script run is over, every readable resume has a Scoring Result, and
\* the results collected are ranked and displayed.
C7_OtherResumesContinue ==
    client_pc \in {"shown", "warning", "exception"} =>
        /\ \A k \in 1..Len(uploaded_files) :
             uploaded_files[k].pdf = "ok" =>
                \E j \in 1..Len(results) : results[j].filename = uploaded_files[k].name
        /\ collected # <<>> => client_pc = "shown"

\* ------------------------------------------- inputs of one flattening run
Slugs == {<<"a">>}

JobChoices ==
    {[has_slug |-> hs, slug |-> s, has_recs |-> hr, recommendations |-> r] :
        hs \in {TRUE}, s \in Slugs, hr \in {TRUE},
        r \in {[i \in 1..n |-> i] : n \in 0..MaxRecs}}
    \cup
    {[has_slug |-> FALSE, slug |-> <<>>, has_recs |-> TRUE, recommendations |-> r] :
        r \in {[i \in 1..n |-> i] : n \in 0..MaxRecs}}
    \cup
    {[has_slug |-> hs, slug |-> IF hs THEN <<"a">> ELSE <<>>,
      has_recs |-> FALSE, recommendations |-> <<>>] : hs \in BOOLEAN}

JobLists == UNION {[1..k -> JobChoices] : k \in 0..MaxJobs}

\* the ways of cutting a job list of length k into n consecutive files
Cuts(n, k) ==
    {c \in [0..n -> 0..k] :
        /\ c[0] = 0
        /\ c[n] = k
        /\ \A i \in 1..n : c[i - 1] <= c[i]}

PathOf(i) == <<"data", <<"f", i>>>>

FileStatus(i, bad, kind) == IF i = bad THEN kind ELSE "ok"

FlattenInit ==
    /\ \E n \in 0..MaxFiles, jobs \in JobLists :
         \E c \in Cuts(n, IF n = 0 THEN 0 ELSE Len(jobs)), bad \in 0..n,
            kind \in {"missing", "malformed"} :
           /\ n = 0 => Len(jobs) = 0
           /\ bad = 0 => kind = "missing"
           /\ json_paths = [i \in 1..n |-> PathOf(i)]
           /\ disk = [p \in {PathOf(i) : i \in 1..n} |->
                        LET i == CHOOSE x \in 1..n : PathOf(x) = p
                        IN [status |-> FileStatus(i, bad, kind),
                            data |-> SubSeq(jobs, c[i - 1] + 1, c[i])]]
    /\ prepared = [status |-> "none", items |-> <<>>, error |-> "none"]
    /\ ServiceIdle
    /\ ClientIdle

\* one call prepare_jsons_for_rag(json_paths) that returns
PrepareReturns ==
    /\ prepared.status = "none"
    /\ prepare_jsons_for_rag(disk, json_paths).status = "returned"
    /\ prepared' = prepare_jsons_for_rag(disk, json_paths)
    /\ UNCHANGED <<disk, json_paths, serviceVars, clientVars>>

\* one call prepare_jsons_for_rag(json_paths) that raises
PrepareRaises ==
    /\ prepared.status = "none"
    /\ prepare_jsons_for_rag(disk, json_paths).status = "raised"
    /\ prepared' = prepare_jsons_for_rag(disk, json_paths)
    /\ UNCHANGED <<disk, json_paths, serviceVars, clientVars>>

FlattenNext == PrepareReturns \/ PrepareRaises

SpecFlatten == FlattenInit /\ [][FlattenNext]_vars

\* ------------------------------------------------- flattening: the claims
\* the jobs of the f-th input file
JobsOf(f) == disk[json_paths[f]].data

\* <<file, job, recommendation>> of every recommendation of the input
Positions ==
    UNION {UNION {{<<f, j, k>> : k \in 1..Len(GetRecommendations(JobsOf(f)[j]))} :
                  j \in 1..Len(JobsOf(f))} :
           f \in 1..Len(json_paths)}

\* file-order, then job-order, then recommendation-order
Before(s, t) ==
    \/ s[1] < t[1]
    \/ s[1] = t[1] /\ s[2] < t[2]
    \/ s[1] = t[1] /\ s[2] = t[2] /\ s[3] < t[3]

Rank(t) == Cardinality({s \in Positions : Before(s, t)}) + 1

DigitValue(c) == CHOOSE d \in 0..9 : Digits[d + 1] = c

RECURSIVE ParseDecimal(_)
ParseDecimal(ds) ==
    IF Len(ds) = 0 THEN 0
    ELSE 10 * ParseDecimal(SubSeq(ds, 1, Len(ds) - 1)) + DigitValue(ds[Len(ds)])

LastDash(id) == CHOOSE i \in 1..Len(id) : id[i] = "-" /\ \A j \in (i + 1)..Len(id) : id[j] # "-"

\* what follows the last "-" of an identifier
CounterSuffix(id) == SubSeq(id, LastDash(id) + 1, Len(id))

\* what precedes the last "-" of an identifier
SlugPart(id) == SubSeq(id, 1, LastDash(id) - 1)

\* C1: a call that returns emits exactly one item per recommendation, in
\* file-order then job-order then recommendation-order; the n-th item's
\* counter suffix is the decimal numeral of n - 1, over the whole run (no reset
\* at a file or job boundary); and no two items have the same identifier.
C1_GlobalCounter ==
    prepared.status = "returned" =>
        /\ Len(prepared.items) = Cardinality(Positions)
        /\ \A t \in Positions :
             /\ prepared.items[Rank(t)].filename = basename(json_paths[t[1]])
             /\ prepared.items[Rank(t)].line
                    = json_dumps(GetRecommendations(JobsOf(t[1])[t[2]])[t[3]])
        /\ \A n \in 1..Len(prepared.items) :
             /\ \A c \in 1..Len(CounterSuffix(prepared.items[n].id)) :
                    CounterSuffix(prepared.items[n].id)[c] \in DigitChars
             /\ CounterSuffix(prepared.items[n].id) # <<>>
             /\ ParseDecimal(CounterSuffix(prepared.items[n].id)) = n - 1
             /\ (Len(CounterSuffix(prepared.items[n].id)) > 1
                    => CounterSuffix(prepared.items[n].id)[1] # "0")
        /\ \A m, n \in 1..Len(prepared.items) :
             m # n => prepared.items[m].id # prepared.items[n].id

\* C1 witness: a run over two files that both yield items, with the same slug
\* on both sides of the file boundary and a counter that reaches two digits
C1_Witness ==
    /\ prepared.status = "returned"
    /\ Len(json_paths) = 2
    /\ Len(prepared.items) >= 11
    /\ \E m, n \in 1..Len(prepared.items) :
         /\ prepared.items[m].filename # prepared.items[n].filename
         /\ SlugPart(prepared.items[m].id) = SlugPart(prepared.items[n].id)

\* the counter value when the job of position t is reached: the number of
\* recommendations before the job's first one
CounterAtJob(t) == Rank(<<t[1], t[2], 1>>) - 1

NoSlugPositions == {t \in Positions : ~JobsOf(t[1])[t[2]].has_slug}

\* C9 as claimed: every item of a job without slug has the identifier
\* "job-c-c", c being the item's own counter value.
C9_OwnCounterInSlug ==
    prepared.status = "returned" =>
        \A t \in NoSlugPositions :
            prepared.items[Rank(t)].id
                = <<"j", "o", "b", "-">> \o ToDecimal(Rank(t) - 1)
                    \o <<"-">> \o ToDecimal(Rank(t) - 1)

\* C9 amended: every item of a job without slug has the identifier
\* "job-c0-c", c0 being the counter value when the job is reached (the counter
\* of the job's first recommendation) and c the item's own counter value; so
\* only the job's first item reads "job-c-c".
C9_JobCounterInSlug ==
    prepared.status = "returned" =>
        \A t \in NoSlugPositions :
            /\ prepared.items[Rank(t)].id
                 = <<"j", "o", "b", "-">> \o ToDecimal(CounterAtJob(t))
                     \o <<"-">> \o ToDecimal(Rank(t) - 1)
            /\ (t[3] = 1 => CounterAtJob(t) = Rank(t) - 1)
            /\ (t[3] > 1 => CounterAtJob(t) < Rank(t) - 1)

\* C9 witness: a job without slug, not the first of the run, with a second
\* recommendation
C9_Witness ==
    /\ prepared.status = "returned"
    /\ \E t \in NoSlugPositions : t[3] = 2 /\ CounterAtJob(t) > 0

====
